---- MODULE Spec2Model ----
(***************************************************************************)
(* A model of gitlab-settings-enforcer's sync run: group resolution,       *)
(* project discovery, branch protection, settings synchronisation, and the *)
(* change report.                                                          *)
(*                                                                         *)
(* Strings the code takes apart (group paths, path segments, regular       *)
(* expressions) are sequences of one-character strings.  The remote GitLab *)
(* is a deterministic store; a remote call fails either because of the     *)
(* store's state (404) or because a fault is injected into it.             *)
(***************************************************************************)
EXTENDS Integers, Sequences, FiniteSets, TLC

VARIABLES
  config,                 \* m.config: the parsed configuration file
  dryrun,                 \* env.Dryrun
  remoteNumProjects,      \* remote: how many projects the group listing holds
  remoteBranches,         \* remote: project id -> set of existing branch names
  remoteProtection,       \* remote: project id -> branch -> its protection
  remoteGeneral,          \* remote: project id -> general settings value
  remoteApproval,         \* remote: project id -> approval settings value
  listGroupProjectOpsPage,\* the package-level listGroupProjectOps.Page
  pc,                     \* position of syncCmd.Run
  projects,               \* the list GetProjects returned to Run
  index,                  \* Run's loop index into projects (1-based)
  OriginalSettings,       \* m.OriginalSettings
  UpdatedSettings,        \* m.UpdatedSettings
  calls,                  \* the remote calls of the current unit of work (discovery,
                          \* or the project at index), in the order issued
  resolved,               \* what GetSubgroupID returned to GetProjects
  lastRet,                \* what the last handler Run called returned
  faults,                 \* number of faults injected so far
  stdout                  \* the lines written to standard output

vars == <<config, dryrun, remoteNumProjects, remoteBranches, remoteProtection,
          remoteGeneral, remoteApproval, listGroupProjectOpsPage, pc, projects,
          index, OriginalSettings, UpdatedSettings, calls, resolved, lastRet, faults,
          stdout>>

-----------------------------------------------------------------------------
(* Bounds of the model *)

\* the group listing holds at most this many projects
MaxProjects == 3
\* at most this many injected faults in one run
MaxFaults == 1
\* iterations the page loop of GetProjects is followed for before it is
\* reported as not terminating
MaxFetches == 5

-----------------------------------------------------------------------------
(* Go values *)

NIL == "nil"

\* the page size GetProjects asks for, scaled down (the source asks for 100)
\* so that a listing of MaxProjects projects spans several pages
PerPage == 1

\* strings.ContainsAny(s, "/")
ContainsAny(s, c) == \E i \in 1..Len(s) : s[i] = c

RECURSIVE SplitFrom(_, _, _, _)
SplitFrom(s, sep, i, cur) ==
  IF i > Len(s) THEN <<cur>>
  ELSE IF s[i] = sep THEN <<cur>> \o SplitFrom(s, sep, i + 1, <<>>)
  ELSE SplitFrom(s, sep, i + 1, Append(cur, s[i]))

\* strings.Split(s, sep), for a one-character separator
Split(s, sep) == SplitFrom(s, sep, 1, <<>>)

Digits == <<"0", "1", "2", "3", "4", "5", "6", "7", "8", "9">>

\* strconv.Itoa, on the group ids of the model (one digit)
Itoa(n) == <<Digits[n + 1]>>

IsNumeric(s) == Len(s) = 1 /\ \E n \in 0..9 : Digits[n + 1] = s[1]

Atoi(s) == CHOOSE n \in 0..9 : Digits[n + 1] = s[1]

\* regexp.MatchString("^" + pattern + "$", s) for patterns over letters and
\* ".": a letter matches itself, "." matches any one character
MatchAnchored(pattern, s) ==
  /\ Len(pattern) = Len(s)
  /\ \A i \in 1..Len(pattern) : pattern[i] = "." \/ pattern[i] = s[i]

\* strings.Replace(url.PathEscape(name), ".", "%2E", -1): letters are kept by
\* PathEscape, every dot becomes the escape %2E
EscapeGroupName(name) == [i \in 1..Len(name) |-> IF name[i] = "." THEN "%2E" ELSE name[i]]

\* the remote's decoding of a percent-encoded path parameter
UnescapeParam(s) == [i \in 1..Len(s) |-> IF s[i] = "%2E" THEN "." ELSE s[i]]

RECURSIVE Contains(_, _)
\* stringslice.Contains(needle, haystack): exact match against a list
Contains(needle, haystack) ==
  IF haystack = <<>> THEN FALSE
  ELSE Head(haystack) = needle \/ Contains(needle, Tail(haystack))

-----------------------------------------------------------------------------
(* The remote group hierarchy *)

Seg_g   == <<"g">>
Seg_e   == <<"e">>
Seg_d   == <<"d">>
Seg_z   == <<"z">>
Seg_bdc == <<"b", ".", "c">>
Seg_bxc == <<"b", "x", "c">>
Seg_gdh == <<"g", ".", "h">>

Slash == <<"/">>

\* The groups of the remote, in the order listings return them (by path).
\* Parent 0 is the top level.  Full paths: g, g/b.c, g/bxc, g/e, g/b.c/d,
\* g/bxc/d, g.h
RemoteGroups ==
  << [ID |-> 1, Path |-> Seg_g,   Parent |-> 0],
     [ID |-> 2, Path |-> Seg_bdc, Parent |-> 1],
     [ID |-> 3, Path |-> Seg_bxc, Parent |-> 1],
     [ID |-> 4, Path |-> Seg_e,   Parent |-> 1],
     [ID |-> 5, Path |-> Seg_d,   Parent |-> 2],
     [ID |-> 6, Path |-> Seg_d,   Parent |-> 3],
     [ID |-> 7, Path |-> Seg_gdh, Parent |-> 0] >>

GroupIDs == {RemoteGroups[i].ID : i \in 1..Len(RemoteGroups)}

GroupByID(id) == CHOOSE g \in {RemoteGroups[i] : i \in 1..Len(RemoteGroups)} : g.ID = id

RECURSIVE FullPathOf(_)
FullPathOf(id) ==
  LET g == GroupByID(id)
  IN  IF g.Parent = 0 THEN g.Path ELSE FullPathOf(g.Parent) \o Slash \o g.Path

\* the id the remote resolves a :id parameter to (a numeric id or a full
\* path), 0 when there is no such group
RemoteResolve(ref) ==
  IF IsNumeric(ref)
  THEN IF Atoi(ref) \in GroupIDs THEN Atoi(ref) ELSE 0
  ELSE IF \E id \in GroupIDs : FullPathOf(id) = ref
       THEN CHOOSE id \in GroupIDs : FullPathOf(id) = ref
       ELSE 0

\* a remote call's outcome: the state's answer unless a fault is injected
\* into call number n of the handler
NoFault == [at |-> 0, kind |-> "ok"]
FaultKinds == {"error", "noresp"}
Outcome(n, fault, fromState) == IF fault.at = n THEN fault.kind ELSE fromState

Call(op, pid, arg, res) == [op |-> op, pid |-> pid, arg |-> arg, res |-> res]

\* GET /groups/:id/subgroups: the direct subgroups, in listing order
RemoteListSubgroups(ref) ==
  LET gid == RemoteResolve(ref)
  IN  IF gid = 0
      THEN [res |-> "notfound", groups |-> <<>>]
      ELSE [res |-> "ok", groups |-> SelectSeq(RemoteGroups, LAMBDA g : g.Parent = gid)]

\* GET /groups/:id
RemoteGetGroup(ref) ==
  LET gid == RemoteResolve(UnescapeParam(ref))
  IN  IF gid = 0 THEN [res |-> "notfound", ID |-> 0] ELSE [res |-> "ok", ID |-> gid]

\* The projects of the remote: project k has id 10 + k
ProjectPath(k) == <<"g", "/", "p", k>>
RemoteProject(k) == [ID |-> 10 + k, Name |-> <<"p", k>>, PathWithNamespace |-> ProjectPath(k)]

CeilDiv(a, b) == (a + b - 1) \div b
Min(a, b) == IF a < b THEN a ELSE b

\* projects lo..hi of the listing (none when hi < lo)
PageItems(lo, hi) == [i \in 1..(hi - lo + 1) |-> RemoteProject(lo + i - 1)]

\* page cur of a listing of n projects in total pages
ServePage(cur, total, perPage, n) ==
  [res |-> "ok",
   projects |-> PageItems((cur - 1) * perPage + 1, Min(cur * perPage, n)),
   TotalPages |-> total,
   NextPage |-> IF cur < total THEN cur + 1 ELSE 0,
   served |-> cur]

\* GET /groups/:id/projects?page=&per_page=&include_subgroups=true.  A page
\* parameter of 0 is left out of the request and the remote serves page 1.
\* NextPage is 0 on the last page.
RemoteListGroupProjects(gid, page, perPage, n) ==
  IF gid \notin GroupIDs
  THEN [res |-> "notfound", projects |-> <<>>, TotalPages |-> 0, NextPage |-> 0, served |-> 0]
  ELSE ServePage(IF page = 0 THEN 1 ELSE page, CeilDiv(n, perPage), perPage, n)

-----------------------------------------------------------------------------
(* GetSubgroupID *)

RECURSIVE LastMatch(_, _, _)
\* the loop over the listed subgroups: every match overwrites subgroup_ID
LastMatch(subgroups, subpath, acc) ==
  IF subgroups = <<>> THEN acc
  ELSE LastMatch(Tail(subgroups), subpath,
                 IF MatchAnchored(subpath, Head(subgroups).Path) THEN Head(subgroups).ID ELSE acc)

\* the group the listing is asked of: the base of the path, or the parent id
GroupInfo(segs, group_ID) == IF group_ID = 0 THEN segs[1] ELSE Itoa(group_ID)

SubgroupResult(id, err, cs) == [id |-> id, err |-> err, calls |-> cs]

\* subgroup_ID, _ = m.GetSubgroupID(...): the deeper call's error is dropped
DiscardError(call, deeper) == SubgroupResult(deeper.id, FALSE, <<call>> \o deeper.calls)

RECURSIVE GetSubgroupID(_, _, _, _, _)

\* a walk that stops at the first level below the base
SubgroupsListed_NoDescent(path, segs, indent, n, fault, group_info, resp) ==
  IF Outcome(n, fault, resp.res) # "ok"
  THEN SubgroupResult(0, TRUE, <<Call("ListSubgroups", 0, group_info, Outcome(n, fault, resp.res))>>)
  ELSE SubgroupResult(LastMatch(resp.groups, segs[indent + 1], 0), FALSE,
                      <<Call("ListSubgroups", 0, group_info, "ok")>>)

\* GetSubgroupID from the answer resp of its listing on
SubgroupsListed(path, segs, indent, n, fault, group_info, resp) ==
  LET res  == Outcome(n, fault, resp.res)
      call == Call("ListSubgroups", 0, group_info, res)
  IN  IF res # "ok" THEN SubgroupResult(0, TRUE, <<call>>)
      ELSE IF indent # Len(segs) - 1
      THEN DiscardError(call, GetSubgroupID(path, indent + 1,
                                LastMatch(resp.groups, segs[indent + 1], 0), n + 1, fault))
      ELSE SubgroupResult(LastMatch(resp.groups, segs[indent + 1], 0), FALSE, <<call>>)

ListSubgroups(path, segs, indent, n, fault, group_info) ==
  SubgroupsListed(path, segs, indent, n, fault, group_info, RemoteListSubgroups(group_info))

\* n: the number of the remote call this level issues.  Returns the id, the
\* error, and the calls issued.  (indent counts segments from 0, as in Go.)
GetSubgroupID(path, indent, group_ID, n, fault) ==
  ListSubgroups(path, Split(path, "/"), indent, n, fault, GroupInfo(Split(path, "/"), group_ID))

-----------------------------------------------------------------------------
(* GetProjects *)

Project(p) == [ID |-> p.ID, Name |-> p.Name, FullPath |-> p.PathWithNamespace]

\* the two filters of the page loop
KeepProject_DenyOnlyWithoutAllow(p, whitelist, blacklist) ==
  IF Len(whitelist) > 0
  THEN Contains(p.PathWithNamespace, whitelist)
  ELSE ~Contains(p.PathWithNamespace, blacklist)

KeepProject(p, whitelist, blacklist) ==
  /\ ~(Len(whitelist) > 0 /\ ~Contains(p.PathWithNamespace, whitelist))
  /\ ~Contains(p.PathWithNamespace, blacklist)

RECURSIVE FilterPage(_, _, _)
\* the loop over one page's projects
FilterPage(page, whitelist, blacklist) ==
  IF page = <<>> THEN <<>>
  ELSE (IF KeepProject(Head(page), whitelist, blacklist) THEN <<Project(Head(page))>> ELSE <<>>)
       \o FilterPage(Tail(page), whitelist, blacklist)

\* the loop's exit test
SeenAllPages_NoSinglePageCase(page, TotalPages) == page >= TotalPages

SeenAllPages(page, TotalPages) == page >= TotalPages \/ TotalPages = 1

\* what GetProjects returns as its list when a page fetch fails
ReposOnFetchError_Partial(repos) == repos

ReposOnFetchError(repos) == <<>>

\* the page loop's outcome: repos, err, the final listGroupProjectOps.Page,
\* the calls issued, and whether the loop was cut off after MaxFetches turns
PageResult(repos, err, page, cs, cut) ==
  [repos |-> repos, err |-> err, page |-> page, calls |-> cs, cut |-> cut]

PrependCall(call, rest) == [rest EXCEPT !.calls = <<call>> \o rest.calls]

RECURSIVE PageLoop(_, _, _, _, _, _, _)

\* one turn of the loop from the answer resp of its fetch on
PageFetched(cfg, groupID, page, repos, n, fault, fuel, resp) ==
  LET res  == Outcome(n, fault, resp.res)
      call == Call("ListGroupProjects", groupID, <<page, IF res = "ok" THEN resp.served ELSE 0>>, res)
  IN  IF res # "ok"
      THEN PageResult(ReposOnFetchError(repos), TRUE, page, <<call>>, FALSE)
      ELSE IF SeenAllPages(page, resp.TotalPages)
      THEN PageResult(repos \o FilterPage(resp.projects, cfg.ProjectWhitelist, cfg.ProjectBlacklist),
                      FALSE, page, <<call>>, FALSE)
      ELSE IF fuel = 0
      THEN PageResult(repos \o FilterPage(resp.projects, cfg.ProjectWhitelist, cfg.ProjectBlacklist),
                      FALSE, resp.NextPage, <<call>>, TRUE)
      ELSE PrependCall(call,
             PageLoop(cfg, groupID, resp.NextPage,
                      repos \o FilterPage(resp.projects, cfg.ProjectWhitelist, cfg.ProjectBlacklist),
                      n + 1, fault, fuel - 1))

\* the for loop of GetProjects, entered with listGroupProjectOps.Page = page
PageLoop(cfg, groupID, page, repos, n, fault, fuel) ==
  PageFetched(cfg, groupID, page, repos, n, fault, fuel,
              RemoteListGroupProjects(groupID, page, PerPage, remoteNumProjects))

\* GetSubgroupID's return, with whether it was called at all
NotResolved == [called |-> FALSE, id |-> 0, err |-> FALSE, calls |-> <<>>]
Resolved(sub) == [called |-> TRUE, id |-> sub.id, err |-> sub.err, calls |-> sub.calls]

\* GetProjects' return: repos, err, page, calls, cut, and sub, GetSubgroupID's
\* return (NotResolved when the group name has no separator)
ProjectsResult(before, sub, rest) ==
  [repos |-> rest.repos, err |-> rest.err, page |-> rest.page,
   calls |-> before \o rest.calls, cut |-> rest.cut, sub |-> sub]

GroupLookupFailed(page, cs, sub) ==
  [repos |-> <<>>, err |-> TRUE, page |-> page, calls |-> cs, cut |-> FALSE, sub |-> sub]

\* the nested path, from GetSubgroupID's return on
SubgroupResolved(cfg, page, fault, sub) ==
  IF sub.err THEN GroupLookupFailed(page, sub.calls, Resolved(sub))
  ELSE ProjectsResult(sub.calls, Resolved(sub),
                      PageLoop(cfg, sub.id, page, <<>>, Len(sub.calls) + 1, fault, MaxFetches))

\* the plain path, from GetGroup's answer on
GroupFetched(cfg, page, fault, group_name, resp) ==
  LET res  == Outcome(1, fault, resp.res)
      call == Call("GetGroup", 0, group_name, res)
  IN  IF res # "ok" THEN GroupLookupFailed(page, <<call>>, NotResolved)
      ELSE ProjectsResult(<<call>>, NotResolved,
                          PageLoop(cfg, resp.ID, page, <<>>, 2, fault, MaxFetches))

GetGroup(cfg, page, fault, group_name) ==
  GroupFetched(cfg, page, fault, group_name, RemoteGetGroup(group_name))

GetProjects(cfg, page, fault) ==
  IF ContainsAny(cfg.GroupName, "/")
  THEN SubgroupResolved(cfg, page, fault, GetSubgroupID(cfg.GroupName, 1, 0, 1, fault))
  ELSE GetGroup(cfg, page, fault, EscapeGroupName(cfg.GroupName))

-----------------------------------------------------------------------------
(* EnsureBranchesAndProtection *)

BranchNames == {"master", "develop"}

NoProtection == [protected |-> FALSE, push |-> 0, merge |-> 0]
Protection(push, merge) == [protected |-> TRUE, push |-> push, merge |-> merge]

\* config.AccessLevel.Value(): the access level's number in the GitLab API
Value(level) ==
  CASE level = "noone"      -> 0
    [] level = "developer"  -> 30
    [] level = "maintainer" -> 40

\* the if dryrun { log } else { call } of each mutating call
SkipCreateBranch(dry) == dry
SkipProtection_Always(dry) == TRUE
SkipProtection(dry) == dry
SkipEditProject_Never(dry) == FALSE
SkipEditProject(dry) == dry
SkipChangeApproval(dry) == dry

\* Returns err, panic, the calls issued and the project's branches after it.
ensureDefaultBranch(project, dry, cfg, branches, fault) ==
  LET ret(err, panic, cs, bs) == [err |-> err, panic |-> panic, calls |-> cs, branches |-> bs]
  IN  IF ~cfg.CreateDefaultBranch THEN ret(FALSE, FALSE, <<>>, branches)
      ELSE IF cfg.ProjectSettings.isNil
      THEN \* m.config.ProjectSettings.DefaultBranch on a nil pointer
           ret(FALSE, TRUE, <<>>, branches)
      ELSE IF cfg.ProjectSettings.DefaultBranch = NIL \/ cfg.ProjectSettings.DefaultBranch = "master"
      THEN ret(FALSE, FALSE, <<>>, branches)
      ELSE
        LET branch == cfg.ProjectSettings.DefaultBranch
            r1 == Outcome(1, fault, IF branch \in branches THEN "ok" ELSE "notfound")
            c1 == Call("GetBranch", project.ID, <<branch>>, r1)
        IN  IF r1 = "ok" THEN ret(FALSE, FALSE, <<c1>>, branches)
            ELSE IF r1 = "noresp"
            THEN \* resp.StatusCode on a nil response
                 ret(FALSE, TRUE, <<c1>>, branches)
            ELSE IF r1 # "notfound" THEN ret(TRUE, FALSE, <<c1>>, branches)
            ELSE IF SkipCreateBranch(dry) THEN ret(FALSE, FALSE, <<c1>>, branches)
            ELSE
              LET r2 == Outcome(2, fault, IF "master" \in branches THEN "ok" ELSE "error")
                  c2 == Call("CreateBranch", project.ID, <<branch, "master">>, r2)
              IN  IF r2 # "ok" THEN ret(TRUE, FALSE, <<c1, c2>>, branches)
                  ELSE ret(FALSE, FALSE, <<c1, c2>>, branches \cup {branch})

\* err != nil && resp.StatusCode != http.StatusNotFound, for a response
UnprotectFailed_NotFoundToo(res) == res # "ok"

UnprotectFailed(res) == res # "ok" /\ res # "notfound"

\* the rule loop's outcome: err, panic, calls and the project's protection
LoopResult(err, panic, cs, prot) == [err |-> err, panic |-> panic, calls |-> cs, prot |-> prot]

PrependCalls(cs, rest) == [rest EXCEPT !.calls = cs \o rest.calls]

RECURSIVE ProtectLoop(_, _, _, _, _, _, _)

\* one rule, from ProtectRepositoryBranches on; c1 is the Unprotect call,
\* prot the project's protection after it
Protect(project, dry, rules, i, prot, n, fault, c1, push, merge) ==
  LET b  == rules[i]
      r2 == Outcome(n + 1, fault, IF prot[b.Name].protected THEN "error" ELSE "ok")
      c2 == Call("ProtectRepositoryBranches", project.ID, <<b.Name, push, merge>>, r2)
  IN  IF r2 # "ok" THEN LoopResult(TRUE, FALSE, <<c1, c2>>, prot)
      ELSE PrependCalls(<<c1, c2>>,
             ProtectLoop(project, dry, rules, i + 1,
                         [prot EXCEPT ![b.Name] = Protection(push, merge)], n + 2, fault))

\* a loop that protects a branch only when nothing had to be removed from it
Unprotected_ProtectOnlyIfAbsent(project, dry, rules, i, prot, n, fault, r1) ==
  IF r1 = "ok"
  THEN PrependCalls(<<Call("UnprotectRepositoryBranches", project.ID, <<rules[i].Name>>, r1)>>,
         ProtectLoop(project, dry, rules, i + 1,
                     [prot EXCEPT ![rules[i].Name] = NoProtection], n + 1, fault))
  ELSE Protect(project, dry, rules, i, prot, n, fault,
               Call("UnprotectRepositoryBranches", project.ID, <<rules[i].Name>>, r1),
               Value(rules[i].PushAccessLevel), Value(rules[i].MergeAccessLevel))

\* one rule, from the outcome r1 of UnprotectRepositoryBranches on
Unprotected(project, dry, rules, i, prot, n, fault, r1) ==
  LET b  == rules[i]
      c1 == Call("UnprotectRepositoryBranches", project.ID, <<b.Name>>, r1)
  IN  IF r1 = "noresp"
      THEN \* resp.StatusCode on a nil response
           LoopResult(FALSE, TRUE, <<c1>>, prot)
      ELSE IF UnprotectFailed(r1) THEN LoopResult(TRUE, FALSE, <<c1>>, prot)
      ELSE Protect(project, dry, rules, i,
                   IF r1 = "ok" THEN [prot EXCEPT ![b.Name] = NoProtection] ELSE prot,
                   n, fault, c1, Value(b.PushAccessLevel), Value(b.MergeAccessLevel))

\* The loop over m.config.ProtectedBranches from rule i on; n numbers the
\* next remote call.
ProtectLoop(project, dry, rules, i, prot, n, fault) ==
  IF i > Len(rules) THEN LoopResult(FALSE, FALSE, <<>>, prot)
  ELSE IF SkipProtection(dry) THEN ProtectLoop(project, dry, rules, i + 1, prot, n, fault)
  ELSE Unprotected(project, dry, rules, i, prot, n, fault,
                   Outcome(n, fault, IF prot[rules[i].Name].protected THEN "ok" ELSE "notfound"))

EnsureResult(err, panic, cs, branches, prot) ==
  [err |-> err, panic |-> panic, calls |-> cs, branches |-> branches, prot |-> prot]

\* EnsureBranchesAndProtection from the return l of its rule loop on
RulesEnsured(d, l) == EnsureResult(l.err, l.panic, d.calls \o l.calls, d.branches, l.prot)

\* EnsureBranchesAndProtection from the return d of ensureDefaultBranch on
DefaultBranchEnsured(project, dry, cfg, prot, fault, d) ==
  IF d.err \/ d.panic
  THEN EnsureResult(d.err, d.panic, d.calls, d.branches, prot)
  ELSE RulesEnsured(d, ProtectLoop(project, dry, cfg.ProtectedBranches, 1, prot,
                                   Len(d.calls) + 1, fault))

\* Returns err, panic, calls, and the project's branches and protection.
EnsureBranchesAndProtection(project, dry, cfg, branches, prot, fault) ==
  DefaultBranchEnsured(project, dry, cfg, prot, fault,
                       ensureDefaultBranch(project, dry, cfg, branches, fault))

-----------------------------------------------------------------------------
(* Settings snapshots *)

\* the zero values of gitlab.Project and gitlab.ProjectApprovals (the fields
\* the model follows)
ZeroGeneral  == [Visibility |-> "", MergeMethod |-> "", ApprovalsBeforeMerge |-> 0]
ZeroApproval == [ApprovalsBeforeMerge |-> 0, ResetApprovalsOnPush |-> FALSE]

\* &ProjectSettings{}
ZeroProjectSettings == [Approval |-> ZeroApproval, General |-> ZeroGeneral]

NilPtr == [isNil |-> TRUE]
Ptr(v) == [isNil |-> FALSE, val |-> v]

\* a recording that replaces the project's whole record
recordSettings_ReplacesRecord(settingMap, fullPath, approval_settings, general_settings) ==
  [k \in DOMAIN settingMap \cup {fullPath} |->
     IF k # fullPath THEN settingMap[k]
     ELSE [Approval |-> IF approval_settings.isNil THEN ZeroApproval ELSE approval_settings.val,
           General  |-> IF general_settings.isNil THEN ZeroGeneral ELSE general_settings.val]]

\* recordSettings: the map after the call
recordSettings(settingMap, fullPath, approval_settings, general_settings) ==
  LET m1 == IF fullPath \in DOMAIN settingMap THEN settingMap
            ELSE [k \in DOMAIN settingMap \cup {fullPath} |->
                    IF k = fullPath THEN ZeroProjectSettings ELSE settingMap[k]]
      m2 == IF ~approval_settings.isNil
            THEN [m1 EXCEPT ![fullPath].Approval = approval_settings.val] ELSE m1
  IN  IF ~general_settings.isNil
      THEN [m2 EXCEPT ![fullPath].General = general_settings.val] ELSE m2

\* the remote's PUT /projects/:id: the options that are set replace the
\* project's values (the configurations of the runs leave
\* approvals_before_merge unset)
RemoteEditProject(general, opt) ==
  [Visibility  |-> IF opt.Visibility = NIL THEN general.Visibility ELSE opt.Visibility,
   MergeMethod |-> IF opt.MergeMethod = NIL THEN general.MergeMethod ELSE opt.MergeMethod,
   ApprovalsBeforeMerge |-> general.ApprovalsBeforeMerge]

\* the remote's POST /projects/:id/approvals
RemoteChangeApproval(approval, opt) ==
  [ApprovalsBeforeMerge |-> opt.ApprovalsBeforeMerge,
   ResetApprovalsOnPush |-> approval.ResetApprovalsOnPush]

\* what an Update method returns: err, calls, the project's remote settings
\* after it, and both maps
UpdateResult(err, cs, remote, orig, upd) ==
  [err |-> err, calls |-> cs, remote |-> remote, orig |-> orig, upd |-> upd]

\* UpdateProjectSettings from its second GetProject on (phase 3); cs are the
\* calls issued before it, general the remote's settings then
SettingsRefetched(project, cs, general, orig, upd, fault) ==
  LET r3 == Outcome(Len(cs) + 1, fault, "ok")
      c3 == Call("GetProject", project.ID, <<>>, r3)
  IN  IF r3 # "ok" THEN UpdateResult(TRUE, Append(cs, c3), general, orig, upd)
      ELSE UpdateResult(FALSE, Append(cs, c3), general, orig,
                        recordSettings(upd, project.FullPath, NilPtr, Ptr(general)))

\* phase 2 going on to the second fetch also after a rejected update
SettingsEdited_RefetchAfterRejection(project, dry, cfg, c1, general, orig, upd, fault) ==
  IF SkipEditProject(dry)
  THEN SettingsRefetched(project, <<c1>>, general, orig, upd, fault)
  ELSE SettingsRefetched(project,
         <<c1, Call("EditProject", project.ID, <<>>, Outcome(2, fault, "ok"))>>,
         IF Outcome(2, fault, "ok") = "ok"
         THEN RemoteEditProject(general, cfg.ProjectSettings) ELSE general,
         orig, upd, fault)

\* UpdateProjectSettings from EditProject on (phase 2); orig holds the
\* "before" snapshot already
SettingsEdited(project, dry, cfg, c1, general, orig, upd, fault) ==
  LET r2 == Outcome(2, fault, "ok")
      c2 == Call("EditProject", project.ID, <<>>, r2)
  IN  IF SkipEditProject(dry)
      THEN SettingsRefetched(project, <<c1>>, general, orig, upd, fault)
      ELSE IF r2 # "ok" THEN UpdateResult(TRUE, <<c1, c2>>, general, orig, upd)
      ELSE SettingsRefetched(project, <<c1, c2>>,
                             RemoteEditProject(general, cfg.ProjectSettings), orig, upd, fault)

\* the method without its check of the configuration section
UpdateProjectSettings_NoSectionCheck(project, dry, cfg, general, orig, upd, fault) ==
  IF Outcome(1, fault, "ok") # "ok"
  THEN UpdateResult(TRUE, <<Call("GetProject", project.ID, <<>>, Outcome(1, fault, "ok"))>>,
                    general, orig, upd)
  ELSE SettingsEdited(project, dry, cfg, Call("GetProject", project.ID, <<>>, "ok"), general,
                      recordSettings(orig, project.FullPath, NilPtr, Ptr(general)), upd, fault)

UpdateProjectSettings(project, dry, cfg, general, orig, upd, fault) ==
  LET r1 == Outcome(1, fault, "ok")
      c1 == Call("GetProject", project.ID, <<>>, r1)
  IN  IF cfg.ProjectSettings.isNil THEN UpdateResult(TRUE, <<>>, general, orig, upd)
      ELSE IF r1 # "ok" THEN UpdateResult(TRUE, <<c1>>, general, orig, upd)
      ELSE SettingsEdited(project, dry, cfg, c1, general,
                          recordSettings(orig, project.FullPath, NilPtr, Ptr(general)),
                          upd, fault)

\* UpdateProjectApprovalSettings from its second GetApprovalConfiguration on
ApprovalRefetched(project, cs, approval, orig, upd, fault) ==
  LET r3 == Outcome(Len(cs) + 1, fault, "ok")
      c3 == Call("GetApprovalConfiguration", project.ID, <<>>, r3)
  IN  IF r3 # "ok" THEN UpdateResult(TRUE, Append(cs, c3), approval, orig, upd)
      ELSE UpdateResult(FALSE, Append(cs, c3), approval, orig,
                        recordSettings(upd, project.FullPath, Ptr(approval), NilPtr))

\* UpdateProjectApprovalSettings from ChangeApprovalConfiguration on
ApprovalChanged(project, dry, cfg, c1, approval, orig, upd, fault) ==
  LET r2 == Outcome(2, fault, "ok")
      c2 == Call("ChangeApprovalConfiguration", project.ID, <<>>, r2)
  IN  IF SkipChangeApproval(dry)
      THEN ApprovalRefetched(project, <<c1>>, approval, orig, upd, fault)
      ELSE IF r2 # "ok" THEN UpdateResult(TRUE, <<c1, c2>>, approval, orig, upd)
      ELSE ApprovalRefetched(project, <<c1, c2>>,
                             RemoteChangeApproval(approval, cfg.ApprovalSettings), orig, upd, fault)

UpdateProjectApprovalSettings(project, dry, cfg, approval, orig, upd, fault) ==
  LET r1 == Outcome(1, fault, "ok")
      c1 == Call("GetApprovalConfiguration", project.ID, <<>>, r1)
  IN  IF cfg.ApprovalSettings.isNil THEN UpdateResult(TRUE, <<>>, approval, orig, upd)
      ELSE IF r1 # "ok" THEN UpdateResult(TRUE, <<c1>>, approval, orig, upd)
      ELSE ApprovalChanged(project, dry, cfg, c1, approval,
                           recordSettings(orig, project.FullPath, Ptr(approval), NilPtr),
                           upd, fault)

-----------------------------------------------------------------------------
(* GenerateChangeLogReport: strings *)

\* the characters of project paths and field names, in byte order
Ascii ==
  << "-", ".", "/", "0", "1", "2", "3", "4", "5", "6", "7", "8", "9",
     "A", "B", "C", "D", "E", "F", "G", "H", "I", "J", "K", "L", "M",
     "N", "O", "P", "Q", "R", "S", "T", "U", "V", "W", "X", "Y", "Z", "_",
     "a", "b", "c", "d", "e", "f", "g", "h", "i", "j", "k", "l", "m",
     "n", "o", "p", "q", "r", "s", "t", "u", "v", "w", "x", "y", "z" >>

\* the byte of each character
CharCodes == [c \in {Ascii[i] : i \in 1..Len(Ascii)} |-> CHOOSE i \in 1..Len(Ascii) : Ascii[i] = c]
CharCode(c) == CharCodes[c]

\* v >= 'A' && v <= 'Z', v >= 'a' && v <= 'z'
UpperCase == {Ascii[i] : i \in CharCodes["A"]..CharCodes["Z"]}
LowerCase == {Ascii[i] : i \in CharCodes["a"]..CharCodes["z"]}
IsUpper(c) == c \in UpperCase
IsLower(c) == c \in LowerCase

\* strings.ToLower
LowerOf == [c \in UpperCase |-> Ascii[CharCodes[c] - CharCodes["A"] + CharCodes["a"]]]
ToLowerChar(c) == IF IsUpper(c) THEN LowerOf[c] ELSE c
ToLower(s) == [i \in 1..Len(s) |-> ToLowerChar(s[i])]

\* the string order of sort.Strings: a < b, byte by byte
RECURSIVE LessFrom(_, _, _)
LessFrom(a, b, i) ==
  IF i > Len(a) THEN i <= Len(b)
  ELSE IF i > Len(b) THEN FALSE
  ELSE IF a[i] = b[i] THEN LessFrom(a, b, i + 1)
  ELSE CharCode(a[i]) < CharCode(b[i])

StrLess(a, b) == LessFrom(a, b, 1)

\* the least string of a non-empty set
Least(S) == CHOOSE x \in S : \A y \in S \ {x} : StrLess(x, y)

\* the strings of a set (the keys of a map, ranged over in any order) after
\* sort.Strings
RECURSIVE SortStrings(_)
SortStrings_Descending(S) ==
  IF S = {} THEN <<>> ELSE SortStrings(S \ {Least(S)}) \o <<Least(S)>>

SortStrings(S) ==
  IF S = {} THEN <<>> ELSE <<Least(S)>> \o SortStrings(S \ {Least(S)})

\* strcase.ToSnake's test of a change of case after position i
NextCaseIsChanged(s, i) ==
  /\ i < Len(s)
  /\ \/ IsUpper(s[i]) /\ IsLower(s[i + 1])
     \/ IsLower(s[i]) /\ IsUpper(s[i + 1])

\* strcase.ToDelimited(s, '_') before the final ToLower: i is the position
\* in s, n the string built so far (the names here hold no digits, whose
\* word boundaries the library adds first)
RECURSIVE ToDelimited(_, _, _)
ToDelimited(s, i, n) ==
  IF i > Len(s) THEN n
  ELSE IF i > 1 /\ n[Len(n)] # "_" /\ NextCaseIsChanged(s, i)
  THEN IF IsUpper(s[i]) THEN ToDelimited(s, i + 1, n \o <<"_", s[i]>>)
       ELSE ToDelimited(s, i + 1, n \o <<s[i], "_">>)
  ELSE IF s[i] \in {" ", "_", "-"} THEN ToDelimited(s, i + 1, Append(n, "_"))
  ELSE ToDelimited(s, i + 1, Append(n, s[i]))

\* strcase.ToSnake
ToSnake(s) == ToLower(ToDelimited(s, 1, <<>>))

-----------------------------------------------------------------------------
(* GenerateChangeLogReport: diff, change log, rendering *)

\* the Go names of the struct fields, as strings
FieldName ==
  [ Approval |-> <<"A", "p", "p", "r", "o", "v", "a", "l">>,
    General |-> <<"G", "e", "n", "e", "r", "a", "l">>,
    ApprovalsBeforeMerge |-> <<"A", "p", "p", "r", "o", "v", "a", "l", "s", "B", "e", "f", "o", "r", "e", "M", "e", "r", "g", "e">>,
    ResetApprovalsOnPush |-> <<"R", "e", "s", "e", "t", "A", "p", "p", "r", "o", "v", "a", "l", "s", "O", "n", "P", "u", "s", "h">>,
    Visibility |-> <<"V", "i", "s", "i", "b", "i", "l", "i", "t", "y">>,
    MergeMethod |-> <<"M", "e", "r", "g", "e", "M", "e", "t", "h", "o", "d">> ]

\* the fields of ProjectSettings, and the fields of gitlab.ProjectApprovals
\* and gitlab.Project the model follows, in declaration order
FieldsOf ==
  [ Approval |-> <<"ApprovalsBeforeMerge", "ResetApprovalsOnPush">>,
    General  |-> <<"Visibility", "MergeMethod", "ApprovalsBeforeMerge">> ]

\* a diff.Change
Change(type, path, from, to) == [Type |-> type, Path |-> path, From |-> from, To |-> to]

\* the changes of the differing fields of one struct, in field order
ChangesOf(type, path, fields, a, b) ==
  [i \in 1..Len(fields) |->
     Change(type, Append(path, FieldName[fields[i]]), a[fields[i]], b[fields[i]])]

\* diff of two structs of one section: one update per differing field
diffStruct(path, section, a, b) ==
  ChangesOf("update", path, SelectSeq(FieldsOf[section], LAMBDA f : a[f] # b[f]), a, b)

\* diff of a struct against nothing: one delete (or create) per field that
\* differs from its zero value, with nil on the other side
structValues(type, path, section, a, zero) ==
  LET fields == SelectSeq(FieldsOf[section], LAMBDA f : a[f] # zero[f])
  IN  IF type = "delete"
      THEN ChangesOf(type, path, fields, a, [f \in DOMAIN a |-> NIL])
      ELSE ChangesOf(type, path, fields, [f \in DOMAIN a |-> NIL], a)

\* diff of the two *ProjectSettings of project k
diffPtr(k, a, b) ==
  IF k \in DOMAIN a /\ k \in DOMAIN b
  THEN diffStruct(<<k, FieldName.Approval>>, "Approval", a[k].Approval, b[k].Approval)
       \o diffStruct(<<k, FieldName.General>>, "General", a[k].General, b[k].General)
  ELSE IF k \in DOMAIN a
  THEN structValues("delete", <<k, FieldName.Approval>>, "Approval", a[k].Approval, ZeroApproval)
       \o structValues("delete", <<k, FieldName.General>>, "General", a[k].General, ZeroGeneral)
  ELSE structValues("create", <<k, FieldName.Approval>>, "Approval", b[k].Approval, ZeroApproval)
       \o structValues("create", <<k, FieldName.General>>, "General", b[k].General, ZeroGeneral)

\* diff of the two maps, key by key
RECURSIVE diffMap(_, _, _, _)
diffMap(keys, i, a, b) ==
  IF i > Len(keys) THEN <<>>
  ELSE diffPtr(keys[i], a, b) \o diffMap(keys, i + 1, a, b)

\* diff.Diff(a, b) of two map[string]*ProjectSettings.  The library ranges
\* over the keys in Go's map order; the changes of one key stay together
\* and in field order, which is all the report depends on.
Diff(a, b) == diffMap(SortStrings(DOMAIN a \cup DOMAIN b), 1, a, b)

\* m[k] = v on a Go map
Put(m, k, v) == [x \in DOMAIN m \cup {k} |-> IF x = k THEN v ELSE m[x]]

\* the body of the loop over difflog: changelog after change v
Recorded(changelog, v) ==
  Put(changelog, v.Path[1],
      Put(IF v.Path[1] \in DOMAIN changelog THEN changelog[v.Path[1]] ELSE <<>>,
          ToSnake(v.Path[Len(v.Path)]),
          [From |-> v.From, To |-> v.To]))

\* the loop over difflog, from change i on
RECURSIVE Changelog(_, _, _)
Changelog(difflog, i, changelog) ==
  IF i > Len(difflog) THEN changelog
  ELSE Changelog(difflog, i + 1, Recorded(changelog, difflog[i]))

\* the setting names of the whole change log
SettingNames(changelog) == UNION {DOMAIN changelog[k] : k \in DOMAIN changelog}

\* longest_setting_name
LongestSettingName(changelog) ==
  IF SettingNames(changelog) = {} THEN 0
  ELSE CHOOSE n \in {Len(x) : x \in SettingNames(changelog)} :
         \A x \in SettingNames(changelog) : Len(x) <= n

\* the lines written for the settings of one project
SettingLines(data, settings, width) ==
  [i \in 1..Len(settings) |->
     [kind |-> "setting", name |-> settings[i], width |-> width,
      From |-> data[settings[i]].From, To |-> data[settings[i]].To]]

\* the loop over project_names, from name i on
RECURSIVE ProjectLines(_, _, _, _)
ProjectLines(changelog, project_names, i, width) ==
  IF i > Len(project_names) THEN <<>>
  ELSE <<[kind |-> "project", name |-> project_names[i]]>>
       \o SettingLines(changelog[project_names[i]],
                       SortStrings(DOMAIN changelog[project_names[i]]), width)
       \o <<[kind |-> "blank"]>>
       \o ProjectLines(changelog, project_names, i + 1, width)

\* the formatted report of a change log
FormattedReport(changelog) ==
  <<[kind |-> "header"]>>
  \o ProjectLines(changelog, SortStrings(DOMAIN changelog), 1, LongestSettingName(changelog) + 2)

\* a reporter that writes the report whatever the length of difflog
Reported_AlwaysFormatted(difflog) == FormattedReport(Changelog(difflog, 1, <<>>))

\* GenerateChangeLogReport from the return of diff.Diff on: the lines written
\* to standard output
Reported(difflog) ==
  IF Len(difflog) # 0 THEN FormattedReport(Changelog(difflog, 1, <<>>)) ELSE <<>>

\* the lines GenerateChangeLogReport writes for the two snapshot maps
GenerateChangeLogReport(orig, upd) == Reported(Diff(orig, upd))

-----------------------------------------------------------------------------
(* Configurations and remote states the runs start from *)

Rule(name, push, merge) == [Name |-> name, PushAccessLevel |-> push, MergeAccessLevel |-> merge]
RuleMaster  == Rule("master", "maintainer", "developer")
RuleDevelop == Rule("develop", "developer", "noone")

NilProjectSettings == [isNil |-> TRUE, DefaultBranch |-> NIL, Visibility |-> NIL, MergeMethod |-> NIL]
EditProjectOptions(defaultBranch) ==
  [isNil |-> FALSE, DefaultBranch |-> defaultBranch, Visibility |-> "private", MergeMethod |-> NIL]

NilApprovalSettings == [isNil |-> TRUE, ApprovalsBeforeMerge |-> 0]
ChangeApprovalOptions == [isNil |-> FALSE, ApprovalsBeforeMerge |-> 1]

Config(groupName, whitelist, blacklist, create, settings, approval, rules) ==
  [GroupName |-> groupName, ProjectWhitelist |-> whitelist, ProjectBlacklist |-> blacklist,
   CreateDefaultBranch |-> create, ProjectSettings |-> settings,
   ApprovalSettings |-> approval, ProtectedBranches |-> rules]

Join(a, b) == a \o Slash \o b

\* group_name values: plain, dotted, nested, with a dotted segment, with a
\* segment that does not exist (in the middle, at the end, at the base)
GroupNames ==
  { Seg_g, Seg_z, Seg_gdh,
    Join(Seg_g, Seg_e), Join(Seg_g, Seg_bdc), Join(Seg_g, Seg_bxc),
    Join(Join(Seg_g, Seg_bdc), Seg_d), Join(Join(Seg_g, Seg_bxc), Seg_d),
    Join(Join(Seg_g, Seg_z), Seg_e),
    Join(Seg_g, Seg_z), Join(Seg_z, Seg_e) }

Whitelists == { <<>>, <<ProjectPath(1)>>, <<ProjectPath(3), ProjectPath(1)>> }
Blacklists == { <<>>, <<ProjectPath(1)>>, <<ProjectPath(2)>> }

RemoteGenerals  == { [Visibility |-> "private", MergeMethod |-> "merge", ApprovalsBeforeMerge |-> 0],
                     [Visibility |-> "public",  MergeMethod |-> "ff", ApprovalsBeforeMerge |-> 0] }
RemoteApprovals == { [ApprovalsBeforeMerge |-> 0, ResetApprovalsOnPush |-> FALSE] }

RemoteBranchSets == { {"master"}, {"master", "develop"} }

RemoteProtections ==
  { [b \in BranchNames |-> NoProtection],
    [b \in BranchNames |-> IF b = "master" THEN Protection(40, 30) ELSE NoProtection],
    [b \in BranchNames |-> Protection(0, 0)] }

ProjectIDs(n) == {RemoteProject(k).ID : k \in 1..n}

\* NewProjectManager, and the zero value of listGroupProjectOps.Page
InitProgram ==
  /\ listGroupProjectOpsPage = 0
  /\ pc = "GetProjects"
  /\ projects = <<>>
  /\ index = 1
  /\ OriginalSettings = <<>>
  /\ UpdatedSettings = <<>>
  /\ calls = <<>>
  /\ resolved = NotResolved
  /\ lastRet = [op |-> "", err |-> FALSE, panic |-> FALSE]
  /\ faults = 0
  /\ stdout = <<>>

InitRemote(n, branches, prot, general, approval) ==
  /\ remoteNumProjects = n
  /\ remoteBranches = [p \in ProjectIDs(n) |-> branches]
  /\ remoteProtection = [p \in ProjectIDs(n) |-> prot]
  /\ remoteGeneral = [p \in ProjectIDs(n) |-> general]
  /\ remoteApproval = [p \in ProjectIDs(n) |-> approval]

\* the bound of the listing in the runs that vary the per-project work
MaxRunProjects == 2

Init ==
  /\ InitProgram
  /\ dryrun \in BOOLEAN
  /\ \E create \in BOOLEAN,
        settings \in {NilProjectSettings} \cup
                     {EditProjectOptions(b) : b \in {NIL, "master", "develop"}},
        approval \in {NilApprovalSettings, ChangeApprovalOptions},
        rules \in {<<>>, <<RuleMaster>>, <<RuleDevelop, RuleMaster>>} :
       config = Config(Seg_g, <<>>, <<>>, create, settings, approval, rules)
  /\ \E n \in 1..MaxRunProjects, branches \in RemoteBranchSets,
        prot \in RemoteProtections, general \in RemoteGenerals,
        approval \in RemoteApprovals :
       InitRemote(n, branches, prot, general, approval)

InitDiscovery ==
  /\ InitProgram
  /\ dryrun = FALSE
  /\ \E groupName \in GroupNames, whitelist \in Whitelists, blacklist \in Blacklists :
       config = Config(groupName, whitelist, blacklist, FALSE,
                       EditProjectOptions(NIL), ChangeApprovalOptions, <<RuleMaster>>)
  /\ \E n \in 0..MaxProjects :
       InitRemote(n, {"master"}, [b \in BranchNames |-> NoProtection],
                  CHOOSE g \in RemoteGenerals : g.Visibility = "public",
                  CHOOSE a \in RemoteApprovals : TRUE)

\* the most projects the snapshot maps of a report hold
MaxReportProjects == 2

\* project paths of the snapshot maps handed to the reporter
Path_alpha == <<"a", "l", "p", "h", "a">>
Path_zeta  == <<"z", "e", "t", "a">>
Path_gp1   == <<"g", "/", "p", "1">>
ReportPaths == {Path_alpha, Path_zeta, Path_gp1}

\* the general and approval settings a snapshot may hold
SnapshotGenerals ==
  { [Visibility |-> "private", MergeMethod |-> "merge", ApprovalsBeforeMerge |-> 0],
    [Visibility |-> "private", MergeMethod |-> "merge", ApprovalsBeforeMerge |-> 1],
    [Visibility |-> "public",  MergeMethod |-> "merge", ApprovalsBeforeMerge |-> 1] }
SnapshotApprovals ==
  { [ApprovalsBeforeMerge |-> 0, ResetApprovalsOnPush |-> FALSE],
    [ApprovalsBeforeMerge |-> 2, ResetApprovalsOnPush |-> TRUE] }
Snapshots == [Approval : SnapshotApprovals, General : SnapshotGenerals]

\* A ProjectManager whose run is over, before GenerateChangeLogReport is
\* called on it: every project of OriginalSettings has a before snapshot, and
\* those whose second fetch succeeded have an after snapshot.
InitReport ==
  /\ pc = "GenerateChangeLogReport"
  /\ listGroupProjectOpsPage = 0
  /\ projects = <<>>
  /\ index = 1
  /\ calls = <<>>
  /\ resolved = NotResolved
  /\ lastRet = [op |-> "", err |-> FALSE, panic |-> FALSE]
  /\ faults = 0
  /\ stdout = <<>>
  /\ dryrun = FALSE
  /\ config = Config(Seg_g, <<>>, <<>>, FALSE, EditProjectOptions(NIL),
                     ChangeApprovalOptions, <<>>)
  /\ InitRemote(0, {"master"}, [b \in BranchNames |-> NoProtection],
                CHOOSE g \in RemoteGenerals : g.Visibility = "public",
                CHOOSE a \in RemoteApprovals : TRUE)
  /\ \E before \in {S \in SUBSET ReportPaths : Cardinality(S) <= MaxReportProjects} :
       \E after \in SUBSET before :
         /\ OriginalSettings \in [before -> Snapshots]
         /\ UpdatedSettings \in [after -> Snapshots]

-----------------------------------------------------------------------------
(* syncCmd.Run *)

\* the faults that may be injected into a handler's remote calls
FaultChoices ==
  {NoFault} \cup {[at |-> k, kind |-> f] : k \in 1..(MaxProjects + 4), f \in FaultKinds}

\* a fault is injected only into a call the handler issues, and only while
\* the run's budget of faults lasts
FaultAllowed(fault, issued) ==
  fault.at = 0 \/ (faults < MaxFaults /\ fault.at <= Len(issued))

FaultsAfter(fault) == IF fault.at = 0 THEN faults ELSE faults + 1

\* where Run goes after GetProjects: logger.Fatal exits the process
AfterGetProjects_IgnoreError(err, repos) ==
  IF repos = <<>> THEN "done" ELSE "EnsureBranchesAndProtection"

AfterGetProjects(err, repos) ==
  IF err THEN "fatal"
  ELSE IF repos = <<>> THEN "done" ELSE "EnsureBranchesAndProtection"

\* Run, from the return r of GetProjects on
GetProjectsReturned(fault, r) ==
  /\ FaultAllowed(fault, r.calls)
  /\ faults' = FaultsAfter(fault)
  /\ calls' = r.calls
  /\ listGroupProjectOpsPage' = r.page
  /\ resolved' = r.sub
  /\ lastRet' = [op |-> "GetProjects", err |-> r.err, panic |-> FALSE]
  /\ projects' = r.repos
  /\ pc' = IF r.cut THEN "hang" ELSE AfterGetProjects(r.err, r.repos)

SyncGetProjects ==
  /\ pc = "GetProjects"
  /\ \E fault \in FaultChoices :
       GetProjectsReturned(fault, GetProjects(config, listGroupProjectOpsPage, fault))
  /\ index' = 1
  /\ UNCHANGED <<config, dryrun, remoteNumProjects, remoteBranches, remoteProtection,
                 remoteGeneral, remoteApproval, OriginalSettings, UpdatedSettings,
                 stdout>>

\* Run, from the return r of EnsureBranchesAndProtection on
EnsureReturned(project, fault, r) ==
  /\ FaultAllowed(fault, r.calls)
  /\ faults' = FaultsAfter(fault)
  /\ calls' = r.calls
  /\ remoteBranches' = [remoteBranches EXCEPT ![project.ID] = r.branches]
  /\ remoteProtection' = [remoteProtection EXCEPT ![project.ID] = r.prot]
  /\ lastRet' = [op |-> "EnsureBranchesAndProtection", err |-> r.err, panic |-> r.panic]
  /\ pc' = IF r.panic THEN "panic" ELSE "UpdateProjectSettings"

SyncEnsureBranchesAndProtection ==
  /\ pc = "EnsureBranchesAndProtection"
  /\ \E fault \in FaultChoices :
       EnsureReturned(projects[index], fault,
         EnsureBranchesAndProtection(projects[index], dryrun, config,
           remoteBranches[projects[index].ID], remoteProtection[projects[index].ID], fault))
  /\ UNCHANGED <<config, dryrun, remoteNumProjects, remoteGeneral, remoteApproval,
                 listGroupProjectOpsPage, projects, index, OriginalSettings,
                 UpdatedSettings, resolved, stdout>>

\* Run, from the return r of UpdateProjectSettings on
SettingsReturned(project, fault, r) ==
  /\ FaultAllowed(fault, r.calls)
  /\ faults' = FaultsAfter(fault)
  /\ calls' = calls \o r.calls
  /\ remoteGeneral' = [remoteGeneral EXCEPT ![project.ID] = r.remote]
  /\ OriginalSettings' = r.orig
  /\ UpdatedSettings' = r.upd
  /\ lastRet' = [op |-> "UpdateProjectSettings", err |-> r.err, panic |-> FALSE]

SyncUpdateProjectSettings ==
  /\ pc = "UpdateProjectSettings"
  /\ \E fault \in FaultChoices :
       SettingsReturned(projects[index], fault,
         UpdateProjectSettings(projects[index], dryrun, config,
           remoteGeneral[projects[index].ID], OriginalSettings, UpdatedSettings, fault))
  /\ pc' = "UpdateProjectApprovalSettings"
  /\ UNCHANGED <<config, dryrun, remoteNumProjects, remoteBranches, remoteProtection,
                 remoteApproval, listGroupProjectOpsPage, projects, index, resolved,
                 stdout>>

\* Run, from the return r of UpdateProjectApprovalSettings on
ApprovalReturned(project, fault, r) ==
  /\ FaultAllowed(fault, r.calls)
  /\ faults' = FaultsAfter(fault)
  /\ calls' = calls \o r.calls
  /\ remoteApproval' = [remoteApproval EXCEPT ![project.ID] = r.remote]
  /\ OriginalSettings' = r.orig
  /\ UpdatedSettings' = r.upd
  /\ lastRet' = [op |-> "UpdateProjectApprovalSettings", err |-> r.err, panic |-> FALSE]

SyncUpdateProjectApprovalSettings ==
  /\ pc = "UpdateProjectApprovalSettings"
  /\ \E fault \in FaultChoices :
       ApprovalReturned(projects[index], fault,
         UpdateProjectApprovalSettings(projects[index], dryrun, config,
           remoteApproval[projects[index].ID], OriginalSettings, UpdatedSettings, fault))
  /\ index' = index + 1
  /\ pc' = IF index < Len(projects) THEN "EnsureBranchesAndProtection" ELSE "done"
  /\ UNCHANGED <<config, dryrun, remoteNumProjects, remoteBranches, remoteProtection,
                 remoteGeneral, listGroupProjectOpsPage, projects, resolved, stdout>>

Next ==
  \/ SyncGetProjects
  \/ SyncEnsureBranchesAndProtection
  \/ SyncUpdateProjectSettings
  \/ SyncUpdateProjectApprovalSettings

Spec == Init /\ [][Next]_vars

SpecDiscovery == InitDiscovery /\ [][Next]_vars

\* a caller of GenerateChangeLogReport: the method runs on the snapshot maps
\* and returns nil
CallGenerateChangeLogReport ==
  /\ pc = "GenerateChangeLogReport"
  /\ stdout' = stdout \o GenerateChangeLogReport(OriginalSettings, UpdatedSettings)
  /\ lastRet' = [op |-> "GenerateChangeLogReport", err |-> FALSE, panic |-> FALSE]
  /\ pc' = "done"
  /\ UNCHANGED <<config, dryrun, remoteNumProjects, remoteBranches, remoteProtection,
                 remoteGeneral, remoteApproval, listGroupProjectOpsPage, projects, index,
                 OriginalSettings, UpdatedSettings, calls, resolved, faults>>

NextReport == CallGenerateChangeLogReport

SpecReport == InitReport /\ [][NextReport]_vars

\* a process that calls GetProjects of one ProjectManager twice: the caller,
\* from the return r of GetProjects on
GetProjectsCalled(fault, r, next) ==
  /\ FaultAllowed(fault, r.calls)
  /\ faults' = FaultsAfter(fault)
  /\ calls' = r.calls
  /\ listGroupProjectOpsPage' = r.page
  /\ resolved' = r.sub
  /\ lastRet' = [op |-> "GetProjects", err |-> r.err, panic |-> FALSE]
  /\ projects' = r.repos
  /\ pc' = IF r.cut THEN "hang" ELSE next

\* the call made at position at of the caller, which goes on to next
CallGetProjects(at, next) ==
  /\ pc = at
  /\ \E fault \in FaultChoices :
       GetProjectsCalled(fault, GetProjects(config, listGroupProjectOpsPage, fault), next)
  /\ index' = 1
  /\ UNCHANGED <<config, dryrun, remoteNumProjects, remoteBranches, remoteProtection,
                 remoteGeneral, remoteApproval, OriginalSettings, UpdatedSettings,
                 stdout>>

NextTwice ==
  \/ CallGetProjects("GetProjects", "GetProjectsAgain")
  \/ CallGetProjects("GetProjectsAgain", "done")

SpecTwice == InitDiscovery /\ [][NextTwice]_vars

-----------------------------------------------------------------------------
(* Vocabulary of the properties *)

InList(x, list) == \E i \in 1..Len(list) : list[i] = x

CallsOf(ops) == SelectSeq(calls, LAMBDA c : c.op \in ops)

GroupOps    == {"GetGroup", "ListSubgroups"}
ListOps     == {"ListGroupProjects"}
MutatingOps == {"CreateBranch", "UnprotectRepositoryBranches", "ProtectRepositoryBranches",
                "EditProject", "ChangeApprovalConfiguration"}
ProjectOps  == MutatingOps \cup {"GetBranch", "GetProject", "GetApprovalConfiguration"}

\* GetProjects has just returned to Run
JustDiscovered == lastRet.op = "GetProjects"

\* number of pages the listing spans
TotalPages == CeilDiv(remoteNumProjects, PerPage)

\* the pages served to GetProjects, in the order requested
ServedPages == [i \in 1..Len(CallsOf(ListOps)) |-> CallsOf(ListOps)[i].arg[2]]

\* the numbers of the listed projects on the pages served without error
FetchedProjects ==
  {k \in 1..remoteNumProjects :
     \E i \in 1..Len(ServedPages) : k \in ((ServedPages[i] - 1) * PerPage + 1)..(ServedPages[i] * PerPage)}

\* the filtering policy: allowed unless the allow-list excludes it or the
\* deny-list names it
Allowed(path) ==
  /\ config.ProjectWhitelist = <<>> \/ InList(path, config.ProjectWhitelist)
  /\ ~InList(path, config.ProjectBlacklist)

Returned(path) == \E i \in 1..Len(projects) : projects[i].FullPath = path

\* the whole listing, filtered, in listing order
AllowedListing ==
  SelectSeq([k \in 1..remoteNumProjects |-> Project(RemoteProject(k))],
            LAMBDA p : Allowed(p.FullPath))

-----------------------------------------------------------------------------
(* Project discovery *)

\* C1: a project listed on a fetched page is in the result of a successful
\* GetProjects iff (the allow-list is empty or holds its path) and the
\* deny-list does not hold its path, also when both lists are non-empty
C1_FilterIff ==
  (JustDiscovered /\ ~lastRet.err) =>
    \A k \in FetchedProjects : Returned(ProjectPath(k)) <=> Allowed(ProjectPath(k))

\* a path in both lists was fetched and dropped, another one kept
C1_Witness ==
  /\ JustDiscovered /\ ~lastRet.err
  /\ InList(ProjectPath(1), config.ProjectWhitelist)
  /\ InList(ProjectPath(1), config.ProjectBlacklist)
  /\ 1 \in FetchedProjects /\ ~Returned(ProjectPath(1))
  /\ 3 \in FetchedProjects /\ Returned(ProjectPath(3))

\* C2: when every fetch succeeds, a first GetProjects requests each page
\* 1..T once, in increasing order, returns the filtered projects of all T
\* pages, and terminates
C2_EveryPageOnce ==
  /\ pc # "hang"
  /\ (JustDiscovered /\ CallsOf(ListOps) # <<>> /\ \A i \in 1..Len(CallsOf(ListOps)) : CallsOf(ListOps)[i].res = "ok") =>
       /\ ~lastRet.err
       /\ \A t \in 1..TotalPages : Cardinality({i \in 1..Len(ServedPages) : ServedPages[i] = t}) = 1
       /\ \A i \in 1..Len(ServedPages), j \in 1..Len(ServedPages) : i < j => ServedPages[i] < ServedPages[j]
       /\ projects = AllowedListing

\* three pages were fetched, and a project of the last one is returned
C2_Witness ==
  /\ JustDiscovered /\ ~lastRet.err
  /\ TotalPages >= 3
  /\ ServedPages = [i \in 1..TotalPages |-> i]
  /\ Returned(ProjectPath(remoteNumProjects))

\* C3: when a page fetch fails, GetProjects returns an error and an empty
\* list, whatever it had collected from the pages before
C3_NoPartialResult ==
  (JustDiscovered /\ \E i \in 1..Len(CallsOf(ListOps)) : CallsOf(ListOps)[i].res # "ok") =>
    lastRet.err /\ projects = <<>>

\* the fetch of a later page failed after an allowed project had been fetched
C3_Witness ==
  /\ JustDiscovered /\ lastRet.err
  /\ Len(CallsOf(ListOps)) >= 2
  /\ CallsOf(ListOps)[1].res = "ok"
  /\ CallsOf(ListOps)[Len(CallsOf(ListOps))].res # "ok"
  /\ Allowed(ProjectPath(1))
  /\ projects = <<>>

-----------------------------------------------------------------------------
(* Group resolution *)

Segments == Split(config.GroupName, "/")

RECURSIVE JoinSegments(_, _)
\* the first k segments, joined by "/"
JoinSegments(segs, k) ==
  IF k = 1 THEN segs[1] ELSE JoinSegments(segs, k - 1) \o Slash \o segs[k]

GroupExists(path) == \E id \in GroupIDs : FullPathOf(id) = path

\* a segment after the first matches no subgroup of its (existing) parent
SegmentMissing ==
  \E k \in 2..Len(Segments) :
    /\ GroupExists(JoinSegments(Segments, k - 1))
    /\ ~GroupExists(JoinSegments(Segments, k))

\* C4 (as claimed): when a segment of a nested group path matches no subgroup
\* of its parent, group resolution returns an error and GetProjects lists no
\* projects
C4_MissingSegmentIsError ==
  (JustDiscovered /\ resolved.called /\ SegmentMissing
     /\ \A i \in 1..Len(resolved.calls) : resolved.calls[i].res = "ok") =>
    resolved.err /\ CallsOf(ListOps) = <<>>

\* C5 (as claimed): a failed remote call at any step of group resolution
\* makes group resolution return an error, and GetProjects returns an error
\* without listing projects
C5_ResolutionFailureIsError ==
  (JustDiscovered /\ \E i \in 1..Len(CallsOf(GroupOps)) : CallsOf(GroupOps)[i].res # "ok") =>
    /\ lastRet.err
    /\ resolved.called => resolved.err
    /\ CallsOf(ListOps) = <<>>

\* C6 (as claimed): when every segment of a nested group path exists, group
\* resolution returns the id of the group whose full path is the configured
\* path
C6_ResolvesConfiguredPath ==
  (JustDiscovered /\ resolved.called /\ GroupExists(config.GroupName)
     /\ \A i \in 1..Len(resolved.calls) : resolved.calls[i].res = "ok") =>
    /\ ~resolved.err
    /\ FullPathOf(resolved.id) = config.GroupName

-----------------------------------------------------------------------------
(* The run *)

\* C7: when group resolution or project discovery fails, the run ends there:
\* no per-project method is called and no per-project remote call is issued
C7_FailedDiscoveryStopsRun ==
  /\ (JustDiscovered /\ (lastRet.err \/ resolved.err)) => pc = "fatal"
  /\ pc = "fatal" =>
       /\ JustDiscovered /\ lastRet.err
       /\ CallsOf(ProjectOps) = <<>>
       /\ OriginalSettings = <<>> /\ UpdatedSettings = <<>>
       /\ ~ENABLED Next

\* discovery failed on the second page, after a project had been listed
C7_Witness ==
  /\ pc = "fatal"
  /\ Len(CallsOf(ListOps)) = 2
  /\ CallsOf(ListOps)[1].res = "ok"
  /\ Allowed(ProjectPath(1))

\* C8: in dry-run mode no mutating remote call is issued
C8_DryRunIssuesNoMutation == dryrun => CallsOf(MutatingOps) = <<>>

\* a dry run went through a project whose default branch is missing and has
\* to be created, with rules to enforce and both settings sections to apply
C8_Witness ==
  /\ dryrun /\ pc = "done"
  /\ config.ProtectedBranches # <<>>
  /\ ~config.ProjectSettings.isNil /\ ~config.ApprovalSettings.isNil
  /\ \E i \in 1..Len(calls) : calls[i].op = "GetBranch" /\ calls[i].res = "notfound"
  /\ Len(CallsOf({"GetProject"})) = 2
  /\ Len(CallsOf({"GetApprovalConfiguration"})) = 2

\* C9 (as claimed): after a dry run the before and after snapshot maps are
\* equal, also for a project one of whose reads failed
C9_DryRunSnapshotsEqual ==
  (dryrun /\ pc = "done") => OriginalSettings = UpdatedSettings

\* the protection calls of the project at hand
ProtectionCalls == CallsOf({"UnprotectRepositoryBranches", "ProtectRepositoryBranches"})

\* the call the loop issues in position j: Unprotect and Protect of rule 1,
\* Unprotect and Protect of rule 2, ...
ExpectedProtectionCall(j) ==
  LET b == config.ProtectedBranches[(j + 1) \div 2]
  IN  IF j % 2 = 1
      THEN [op |-> "UnprotectRepositoryBranches", arg |-> <<b.Name>>]
      ELSE [op |-> "ProtectRepositoryBranches",
            arg |-> <<b.Name, Value(b.PushAccessLevel), Value(b.MergeAccessLevel)>>]

\* C10: the protection calls of a project follow the rule order, Unprotect
\* then Protect of each rule before any call of the next; after a not-found
\* (or successful) Unprotect the Protect of that rule is issued
C10_UnprotectThenProtectInRuleOrder ==
  /\ Len(ProtectionCalls) <= 2 * Len(config.ProtectedBranches)
  /\ \A j \in 1..Len(ProtectionCalls) :
       /\ ProtectionCalls[j].op = ExpectedProtectionCall(j).op
       /\ ProtectionCalls[j].arg = ExpectedProtectionCall(j).arg
       /\ ProtectionCalls[j].pid = ProtectionCalls[1].pid
       /\ j < Len(ProtectionCalls) => ProtectionCalls[j].res = "ok" \/ (j % 2 = 1 /\ ProtectionCalls[j].res = "notfound")
  /\ Len(ProtectionCalls) % 2 = 1 =>
       ProtectionCalls[Len(ProtectionCalls)].res \notin {"ok", "notfound"}

\* two rules were enforced, the first on a branch that was not protected
\* (not-found), the second on a protected one
C10_Witness ==
  /\ ~dryrun
  /\ Len(ProtectionCalls) = 4
  /\ ProtectionCalls[1].res = "notfound" /\ ProtectionCalls[2].res = "ok"
  /\ ProtectionCalls[3].res = "ok" /\ ProtectionCalls[4].res = "ok"

-----------------------------------------------------------------------------
(* Branch protection: convergence and repetition *)

\* EnsureBranchesAndProtection has just returned to Run for the project at index
EnsureJustReturned == pc = "UpdateProjectSettings" /\ lastRet.op = "EnsureBranchesAndProtection"

\* the remote protection of the project at index
ProtectionAtIndex == remoteProtection[projects[index].ID]

\* C11: when EnsureBranchesAndProtection returns without error in a run that
\* is not a dry run, the remote protection of every configured rule's branch
\* has exactly the configured push and merge access levels, whatever the
\* protection was before
C11_ProtectionConverges ==
  (EnsureJustReturned /\ ~dryrun /\ ~lastRet.err) =>
    \A i \in 1..Len(config.ProtectedBranches) :
      LET b == config.ProtectedBranches[i]
      IN  /\ ProtectionAtIndex[b.Name].protected
          /\ ProtectionAtIndex[b.Name].push = Value(b.PushAccessLevel)
          /\ ProtectionAtIndex[b.Name].merge = Value(b.MergeAccessLevel)

\* two rules were enforced without error on branches that both carried a
\* protection with other access levels (both Unprotect calls removed one)
C11_Witness ==
  /\ EnsureJustReturned /\ ~dryrun /\ ~lastRet.err
  /\ config.ProtectedBranches = <<RuleDevelop, RuleMaster>>
  /\ Len(ProtectionCalls) = 4
  /\ ProtectionCalls[1].res = "ok" /\ ProtectionCalls[3].res = "ok"

\* every remote call of the step that has just returned succeeded (a not-found
\* answer is the remote's answer, not a failed call)
AllCallsSucceeded == \A i \in 1..Len(calls) : calls[i].res \in {"ok", "notfound"}

\* the project's protection after the branch step is run on it once more
ProtectionAfterSecondRun ==
  EnsureBranchesAndProtection(projects[index], dryrun, config,
    remoteBranches[projects[index].ID], ProtectionAtIndex, NoFault).prot

\* C12: running the branch step a second time with the same rules on the same
\* project, all remote calls succeeding, leaves the remote protection as the
\* first run left it
C12_SecondRunSameProtection ==
  (EnsureJustReturned /\ ~lastRet.err /\ ~lastRet.panic /\ AllCallsSucceeded) =>
    ProtectionAfterSecondRun = ProtectionAtIndex

\* the first run protected a branch that carried no protection and replaced
\* the protection of another
C12_Witness ==
  /\ EnsureJustReturned /\ ~dryrun /\ ~lastRet.err /\ AllCallsSucceeded
  /\ Len(ProtectionCalls) = 4
  /\ ProtectionCalls[1].res = "notfound" /\ ProtectionCalls[3].res = "ok"

-----------------------------------------------------------------------------
(* Branch protection and default branch: failures *)

\* Run is where EnsureBranchesAndProtection left it: returned, or panicked
EnsureJustEnded == lastRet.op = "EnsureBranchesAndProtection"

\* protection call j failed: an Unprotect otherwise than not-found, or a Protect
ProtectionCallFailed(j) ==
  /\ ProtectionCalls[j].res # "ok"
  /\ ~(ProtectionCalls[j].op = "UnprotectRepositoryBranches" /\ ProtectionCalls[j].res = "notfound")

\* C13 (as claimed): a failed protection call, a transport failure without a
\* response included, makes EnsureBranchesAndProtection return an error, and
\* no Unprotect or Protect call follows it for that project
C13_ProtectionFailureReturnsError ==
  EnsureJustEnded =>
    \A j \in 1..Len(ProtectionCalls) :
      ProtectionCallFailed(j) =>
        /\ j = Len(ProtectionCalls)
        /\ lastRet.err /\ ~lastRet.panic

\* C14 (as claimed): whatever remote calls fail, Run takes every discovered
\* project in discovery order through the branch step, the general-settings
\* step and the approval step, in that order, and only then goes on to the
\* next project or ends
C14_EveryStepOfEveryProjectRuns ==
  [][ /\ pc = "GetProjects" /\ pc' = "EnsureBranchesAndProtection" => index' = 1
      /\ pc # "GetProjects" => projects' = projects
      /\ pc = "EnsureBranchesAndProtection" =>
            pc' = "UpdateProjectSettings" /\ index' = index
      /\ pc = "UpdateProjectSettings" =>
            pc' = "UpdateProjectApprovalSettings" /\ index' = index
      /\ pc = "UpdateProjectApprovalSettings" =>
            /\ index' = index + 1
            /\ pc' = IF index < Len(projects) THEN "EnsureBranchesAndProtection" ELSE "done"
    ]_vars

\* the default-branch calls of the project at hand
BranchCalls == CallsOf({"GetBranch", "CreateBranch"})

\* the conditions under which ensureDefaultBranch is to look the branch up
DefaultBranchWanted ==
  /\ config.CreateDefaultBranch
  /\ ~config.ProjectSettings.isNil
  /\ config.ProjectSettings.DefaultBranch \notin {NIL, "master"}

\* C15 (as claimed): CreateBranch is issued only when creation is enabled, a
\* default branch other than "master" is configured, the run is not a dry
\* run and GetBranch answered not-found, and then with ref "master"; with
\* default branch "master" neither call is issued; a lookup that fails
\* otherwise than not-found makes the step return an error, with no create
\* and no protection call after it
C15_CreateOnlyAfterNotFound ==
  /\ \A i \in 1..Len(BranchCalls) :
       /\ DefaultBranchWanted
       /\ BranchCalls[i].op = "CreateBranch" =>
            /\ ~dryrun /\ i = 2
            /\ BranchCalls[1].op = "GetBranch" /\ BranchCalls[1].res = "notfound"
            /\ BranchCalls[i].arg = <<config.ProjectSettings.DefaultBranch, "master">>
  /\ Len(BranchCalls) <= 2
  /\ (EnsureJustEnded /\ BranchCalls # <<>> /\ BranchCalls[1].res \notin {"ok", "notfound"}) =>
       /\ lastRet.err /\ ~lastRet.panic
       /\ Len(BranchCalls) = 1 /\ ProtectionCalls = <<>>

-----------------------------------------------------------------------------
(* Absent configuration sections *)

\* C16: with the general-settings section absent UpdateProjectSettings
\* returns an error, issues no remote call and changes neither snapshot map
\* (nor the remote); likewise UpdateProjectApprovalSettings with the approval
\* section absent
C16_AbsentSectionErrorWithoutEffect ==
  [][ /\ (pc = "UpdateProjectSettings" /\ config.ProjectSettings.isNil) =>
            /\ lastRet'.op = "UpdateProjectSettings" /\ lastRet'.err
            /\ calls' = calls /\ remoteGeneral' = remoteGeneral
            /\ OriginalSettings' = OriginalSettings /\ UpdatedSettings' = UpdatedSettings
      /\ (pc = "UpdateProjectApprovalSettings" /\ config.ApprovalSettings.isNil) =>
            /\ lastRet'.op = "UpdateProjectApprovalSettings" /\ lastRet'.err
            /\ calls' = calls /\ remoteApproval' = remoteApproval
            /\ OriginalSettings' = OriginalSettings /\ UpdatedSettings' = UpdatedSettings
    ]_vars

\* both methods have been called for a project with both sections absent
C16_Witness ==
  /\ lastRet.op = "UpdateProjectApprovalSettings" /\ lastRet.err
  /\ config.ProjectSettings.isNil /\ config.ApprovalSettings.isNil
  /\ CallsOf({"GetProject", "GetApprovalConfiguration"}) = <<>>
  /\ OriginalSettings = <<>> /\ UpdatedSettings = <<>>

\* C17 (as claimed): an absent configuration section makes only its own
\* method return an error: with no remote call failing, the branch step and
\* the other settings step of every project complete normally, whatever the
\* default-branch creation flag is
C17_AbsentSectionOnlyFailsOwnMethod ==
  (faults = 0 /\ (config.ProjectSettings.isNil \/ config.ApprovalSettings.isNil)) =>
    /\ pc # "panic"
    /\ lastRet.op = "EnsureBranchesAndProtection" => ~lastRet.err /\ ~lastRet.panic
    /\ lastRet.op = "UpdateProjectSettings" => (lastRet.err <=> config.ProjectSettings.isNil)
    /\ lastRet.op = "UpdateProjectApprovalSettings" =>
         (lastRet.err <=> config.ApprovalSettings.isNil)

-----------------------------------------------------------------------------
(* The change report *)

\* GenerateChangeLogReport has returned
ReportWritten == pc = "done" /\ lastRet.op = "GenerateChangeLogReport"

\* the report has a block for project path p
Listed(p) == \E i \in 1..Len(stdout) : stdout[i].kind = "project" /\ stdout[i].name = p

\* the position of the line that opens the block of p, and of the blank line
\* that closes it
BlockStart(p) == CHOOSE i \in 1..Len(stdout) : stdout[i].kind = "project" /\ stdout[i].name = p
BlockEnd(p) ==
  CHOOSE j \in (BlockStart(p) + 1)..Len(stdout) :
    /\ stdout[j].kind = "blank"
    /\ \A k \in (BlockStart(p) + 1)..(j - 1) : stdout[k].kind = "setting"

\* the entries the report shows for p
ReportBlock(p) ==
  IF Listed(p) THEN SubSeq(stdout, BlockStart(p) + 1, BlockEnd(p) - 1) ELSE <<>>

\* the leaf fields of a snapshot
LeafFields == {<<sec, FieldsOf[sec][i]>> : sec \in {"Approval"}, i \in 1..Len(FieldsOf.Approval)}
              \cup {<<sec, FieldsOf[sec][i]>> : sec \in {"General"}, i \in 1..Len(FieldsOf.General)}

\* the leaf fields of p whose before and after values differ
ChangedFields(p) ==
  {sf \in LeafFields : OriginalSettings[p][sf[1]][sf[2]] # UpdatedSettings[p][sf[1]][sf[2]]}

\* C18 (as claimed): for a project with a before and an after snapshot the
\* report has exactly one entry per leaf field whose value differs, each
\* with that field's old and new value
C18_OneEntryPerChangedField ==
  ReportWritten =>
    \A p \in DOMAIN OriginalSettings \cap DOMAIN UpdatedSettings :
      /\ Len(ReportBlock(p)) = Cardinality(ChangedFields(p))
      /\ \A sf \in ChangedFields(p) :
           \E i \in 1..Len(ReportBlock(p)) :
             /\ ReportBlock(p)[i].name = ToSnake(FieldName[sf[2]])
             /\ ReportBlock(p)[i].From = OriginalSettings[p][sf[1]][sf[2]]
             /\ ReportBlock(p)[i].To = UpdatedSettings[p][sf[1]][sf[2]]

\* C19 (as claimed): the reporter runs once per run, after the last
\* project's steps: Run reaches its end with projects processed only out of
\* the reporter, and enters the reporter only from the last project's
\* approval step
C19_ReporterRunsOnceAtEnd ==
  [][ /\ (pc # "done" /\ pc' = "done" /\ projects' # <<>>) => pc = "GenerateChangeLogReport"
      /\ (pc # "GenerateChangeLogReport" /\ pc' = "GenerateChangeLogReport") =>
            pc = "UpdateProjectApprovalSettings" /\ index = Len(projects)
    ]_vars

\* C20: in the rendered report the projects appear in ascending byte-wise
\* order of their path, each once, and the entries of a project in
\* ascending order of the snake-cased field name
C20_ReportSorted ==
  ReportWritten =>
    /\ \A i, j \in 1..Len(stdout) :
         (i < j /\ stdout[i].kind = "project" /\ stdout[j].kind = "project") =>
           StrLess(stdout[i].name, stdout[j].name)
    /\ \A i \in 1..(Len(stdout) - 1) :
         (stdout[i].kind = "setting" /\ stdout[i + 1].kind = "setting") =>
           StrLess(stdout[i].name, stdout[i + 1].name)

\* a report of the projects "zeta" and "alpha", "zeta" with three entries
C20_Witness ==
  /\ ReportWritten
  /\ Listed(Path_zeta) /\ Listed(Path_alpha)
  /\ Len(ReportBlock(Path_zeta)) >= 3

\* C21: when the before and after snapshot maps are equal the reporter
\* writes nothing to standard output, not even the header, and returns
\* without error
C21_NoChangeNoOutput ==
  (ReportWritten /\ OriginalSettings = UpdatedSettings) =>
    stdout = <<>> /\ ~lastRet.err /\ ~lastRet.panic

\* the reporter ran on equal maps that hold snapshots of two projects
C21_Witness ==
  /\ ReportWritten
  /\ OriginalSettings = UpdatedSettings
  /\ Cardinality(DOMAIN OriginalSettings) = 2

-----------------------------------------------------------------------------
(* Group resolution: the lookups issued *)

\* the lookups of group resolution, none of which failed
ResolutionLookups == CallsOf(GroupOps)
NoLookupFailed == \A i \in 1..Len(ResolutionLookups) : ResolutionLookups[i].res = "ok"

\* C22 (as claimed): for a group path of n segments group resolution issues
\* exactly n lookups
C22_OneLookupPerSegment ==
  (JustDiscovered /\ NoLookupFailed) => Len(ResolutionLookups) = Len(Segments)

\* C22 (amended): when no lookup fails, a path of one segment takes exactly
\* one lookup (GetGroup) and a path of n >= 2 segments exactly n - 1, one
\* subgroup listing for each segment after the first, the first of them
\* asked of the base segment by name; a failed lookup is the last one
C22_OneListingPerFollowingSegment ==
  JustDiscovered =>
    /\ NoLookupFailed =>
         IF Len(Segments) = 1
         THEN Len(ResolutionLookups) = 1 /\ ResolutionLookups[1].op = "GetGroup"
         ELSE /\ Len(ResolutionLookups) = Len(Segments) - 1
              /\ \A i \in 1..Len(ResolutionLookups) : ResolutionLookups[i].op = "ListSubgroups"
              /\ ResolutionLookups[1].arg = Segments[1]
    /\ \A i \in 1..Len(ResolutionLookups) :
         ResolutionLookups[i].res # "ok" => i = Len(ResolutionLookups)

\* a path of three segments was resolved with two listings
C22_Witness ==
  /\ JustDiscovered /\ NoLookupFailed
  /\ Len(Segments) = 3
  /\ Len(ResolutionLookups) = 2
  /\ ResolutionLookups[2].arg # Segments[1]

-----------------------------------------------------------------------------
(* The three phases of the Update methods *)

\* the remote calls the step being taken issues
NewCalls == SubSeq(calls', Len(calls) + 1, Len(calls'))

\* The step being taken is a call of an Update method for project path P:
\* fetchOp and updateOp are its remote calls, section the section of the
\* snapshots it records, before and after the remote's value of the section
\* when the method is called and when it returns.
ThreePhases(P, fetchOp, updateOp, section, before, after) ==
  /\ NewCalls # <<>> /\ NewCalls[1].op = fetchOp
  /\ \A i \in 2..Len(NewCalls) : NewCalls[i - 1].res = "ok"
  /\ NewCalls[1].res # "ok" =>
       /\ lastRet'.err
       /\ OriginalSettings' = OriginalSettings /\ UpdatedSettings' = UpdatedSettings
  /\ NewCalls[1].res = "ok" =>
       /\ P \in DOMAIN OriginalSettings' /\ OriginalSettings'[P][section] = before
       /\ Len(NewCalls) >= 2
       /\ NewCalls[2].op = IF dryrun THEN fetchOp ELSE updateOp
       /\ \A i \in 1..Len(NewCalls) : NewCalls[i].op = updateOp => i = 2
       /\ (NewCalls[2].op = updateOp /\ NewCalls[2].res # "ok") =>
            lastRet'.err /\ UpdatedSettings' = UpdatedSettings
       /\ (NewCalls[2].op = updateOp /\ NewCalls[2].res = "ok") =>
            Len(NewCalls) = 3 /\ NewCalls[3].op = fetchOp
       /\ NewCalls[Len(NewCalls)].res # "ok" => UpdatedSettings' = UpdatedSettings
       /\ NewCalls[Len(NewCalls)].res = "ok" =>
            /\ ~lastRet'.err
            /\ P \in DOMAIN UpdatedSettings' /\ UpdatedSettings'[P][section] = after

\* C23: UpdateProjectSettings and UpdateProjectApprovalSettings fetch and
\* write the before snapshot, then issue the update (unless it is a dry run),
\* then fetch again and write the after snapshot; a failed first fetch
\* means no update and no snapshot, a rejected update an error and no after
\* snapshot
C23_ThreeOrderedPhases ==
  [][ /\ (pc = "UpdateProjectSettings" /\ ~config.ProjectSettings.isNil) =>
            ThreePhases(projects[index].FullPath, "GetProject", "EditProject", "General",
                        remoteGeneral[projects[index].ID], remoteGeneral'[projects[index].ID])
      /\ (pc = "UpdateProjectApprovalSettings" /\ ~config.ApprovalSettings.isNil) =>
            ThreePhases(projects[index].FullPath, "GetApprovalConfiguration",
                        "ChangeApprovalConfiguration", "Approval",
                        remoteApproval[projects[index].ID], remoteApproval'[projects[index].ID])
    ]_vars

\* both methods went through their three phases for a project, and each
\* changed the remote
C23_Witness ==
  /\ lastRet.op = "UpdateProjectApprovalSettings" /\ ~lastRet.err /\ ~dryrun
  /\ Len(CallsOf({"GetProject"})) = 2 /\ Len(CallsOf({"GetApprovalConfiguration"})) = 2
  /\ \E P \in DOMAIN UpdatedSettings :
       /\ OriginalSettings[P].General # UpdatedSettings[P].General
       /\ OriginalSettings[P].Approval # UpdatedSettings[P].Approval

-----------------------------------------------------------------------------
(* The change report: what its entries are about *)

\* the project paths the report has a block for
ListedProjects == {stdout[i].name : i \in {j \in 1..Len(stdout) : stdout[j].kind = "project"}}

\* entry e of the block of p shows a leaf field of p whose before and after
\* values differ
ShowsChangedField(p, e) ==
  \E sf \in ChangedFields(p) :
    /\ e.name = ToSnake(FieldName[sf[2]])
    /\ e.From = OriginalSettings[p][sf[1]][sf[2]]
    /\ e.To = UpdatedSettings[p][sf[1]][sf[2]]

\* C24 (as claimed): every entry of the report names a project that has a
\* before and an after snapshot and a field whose two values differ; a
\* project without an after snapshot (its update was rejected, or its second
\* fetch failed) has no entry
C24_EntriesOnlyForRealChanges ==
  ReportWritten =>
    \A p \in ListedProjects :
      /\ p \in DOMAIN OriginalSettings /\ p \in DOMAIN UpdatedSettings
      /\ \A i \in 1..Len(ReportBlock(p)) : ShowsChangedField(p, ReportBlock(p)[i])

-----------------------------------------------------------------------------
(* Recording snapshots *)

\* The step being taken takes map M to map N while recording section
\* "recorded" of project path P: no record is removed, the records of other
\* projects are as they were, and P's other section is as it was (the zero
\* value when the record is new).
Upserted(M, N, P, other, zeroOther) ==
  /\ DOMAIN M \subseteq DOMAIN N
  /\ DOMAIN N \subseteq DOMAIN M \cup {P}
  /\ \A k \in DOMAIN M : k # P => N[k] = M[k]
  /\ P \in DOMAIN N =>
       N[P][other] = IF P \in DOMAIN M THEN M[P][other] ELSE zeroOther

\* C25: recording a snapshot of project P creates P's record if absent and
\* overwrites only the section recorded; P's other section and every other
\* project's record are left as they were, no record is ever removed, and
\* a map nothing is recorded into is unchanged
C25_RecordingIsUpsert ==
  [][ /\ pc = "UpdateProjectSettings" =>
            /\ Upserted(OriginalSettings, OriginalSettings', projects[index].FullPath,
                        "Approval", ZeroApproval)
            /\ Upserted(UpdatedSettings, UpdatedSettings', projects[index].FullPath,
                        "Approval", ZeroApproval)
      /\ pc = "UpdateProjectApprovalSettings" =>
            /\ Upserted(OriginalSettings, OriginalSettings', projects[index].FullPath,
                        "General", ZeroGeneral)
            /\ Upserted(UpdatedSettings, UpdatedSettings', projects[index].FullPath,
                        "General", ZeroGeneral)
      /\ pc \notin {"UpdateProjectSettings", "UpdateProjectApprovalSettings"} =>
            OriginalSettings' = OriginalSettings /\ UpdatedSettings' = UpdatedSettings
      /\ (pc \in {"UpdateProjectSettings", "UpdateProjectApprovalSettings"}
          /\ NewCalls # <<>> /\ NewCalls[Len(NewCalls)].res # "ok") =>
            UpdatedSettings' = UpdatedSettings
    ]_vars

\* both sections of two projects have been recorded into both maps
C25_Witness ==
  /\ lastRet.op = "UpdateProjectApprovalSettings" /\ ~dryrun
  /\ Cardinality(DOMAIN OriginalSettings) = 2 /\ Cardinality(DOMAIN UpdatedSettings) = 2
  /\ \A k \in DOMAIN UpdatedSettings :
       /\ UpdatedSettings[k].General # ZeroGeneral
       /\ UpdatedSettings[k].Approval # ZeroApproval

-----------------------------------------------------------------------------
(* GetProjects called twice *)

\* the pages the call being returned from was served, in order
NewServedPages ==
  [i \in 1..Len(SelectSeq(calls', LAMBDA c : c.op \in ListOps)) |->
     SelectSeq(calls', LAMBDA c : c.op \in ListOps)[i].arg[2]]

\* C26 (as claimed): a second call of GetProjects in the same process, the
\* remote unchanged and both calls succeeding, starts at the first page
\* again, fetches every page and returns the list the first call returned
C26_SecondCallSameList ==
  [][ (pc = "GetProjectsAgain" /\ ~lastRet.err /\ ~lastRet'.err) =>
        /\ projects' = projects
        /\ NewServedPages = [i \in 1..Len(NewServedPages) |-> i]
        /\ Len(NewServedPages) >= TotalPages
    ]_vars

====
